---- MODULE Spec2Model ----
(***************************************************************************)
(* A model of the cache warmer of src/index.js: the Run Logger             *)
(* (AppsScriptLogger), the sitemap resolution, retryableGet, the purge     *)
(* client, warmUrls and the orchestrating async function.                  *)
(*                                                                         *)
(* Text is modelled as a sequence of string pieces.  The values the code   *)
(* inspects character by character (the response headers) are spelled one  *)
(* character per piece, so that toLowerCase, includes and split are        *)
(* computed and not assumed.  The empty sequence stands for the empty      *)
(* string and for undefined: the code only ever tests such values for      *)
(* truthiness (a || b, filter(Boolean), !x).  A JS value that is either a  *)
(* number or the empty string (status, responseMs) is a sequence of at     *)
(* most one number.                                                        *)
(***************************************************************************)
EXTENDS Integers, Sequences, FiniteSets, TLC

(* ------------------------------ bounds --------------------------------- *)
\* Two explorations of the same program share the actions below.  Spec lets
\* every page GET meet every outcome of GetOutcomes, over at most MaxPages
\* urls and a batchSize up to MaxPageBatch.  SpecBatches takes one outcome
\* for each path through the callback of a url (ControlOutcomes), over at most
\* MaxUrls urls and a batchSize up to MaxBatchSize.
\* SpecThrow takes the outcomes and batch sizes of SpecBatches over the urls
\* of Spec; SpecSitemaps and SpecLive stand on the bounds of Spec.
\* The other bounds: most entries of a sitemap index, last instant of the
\* logical clock, most rows the Run Logger harness appends, most setFinished
\* and flush calls it makes.
MaxIndexEntries == 2
MaxUrls == 3
MaxBatchSize == 2
MaxPages == 2
MaxPageBatch == 1
MaxClock == 2
MaxRows == 2
MaxCalls == 3

(* --------------------------- configuration ----------------------------- *)
DOMAINS_MAP == [id |-> <<"https://divemasterlembongan.com">>]
Domains == DOMAIN DOMAINS_MAP
\* the identity key of a domain, as text
CountryOf(d) == <<d>>
\* retryableGet(url, cfg, 3)
Retries == 3

(* ------------------------------- text ---------------------------------- *)
Empty == <<>>
NA == <<"N", "/", "A">>
Truthy(v) == v # Empty
\* a || b
OrElse(a, b) == IF Truthy(a) THEN a ELSE b

UpperLetters == <<"A","B","C","D","E","F","G","H","I","J","K","L","M",
                  "N","O","P","Q","R","S","T","U","V","W","X","Y","Z">>
LowerLetters == <<"a","b","c","d","e","f","g","h","i","j","k","l","m",
                  "n","o","p","q","r","s","t","u","v","w","x","y","z">>
LowerChar(c) ==
  IF \E k \in 1..26 : UpperLetters[k] = c
  THEN LowerLetters[CHOOSE k \in 1..26 : UpperLetters[k] = c]
  ELSE c
\* String.prototype.toLowerCase
ToLowerCase(s) == [k \in 1..Len(s) |-> LowerChar(s[k])]
\* String.prototype.includes, for a one-character needle
Includes(s, c) == \E k \in 1..Len(s) : s[k] = c
\* String.prototype.split, for a one-character separator
RECURSIVE Split(_, _)
Split(s, sep) ==
  IF ~Includes(s, sep) THEN <<s>>
  ELSE LET k == CHOOSE i \in 1..Len(s) :
                  s[i] = sep /\ \A j \in 1..(i - 1) : s[j] # sep
       IN <<SubSeq(s, 1, k - 1)>> \o Split(SubSeq(s, k + 1, Len(s)), sep)

\* the decimal digits of a natural number, as `${n}` renders it
RECURSIVE Decimal(_)
Decimal(n) ==
  LET digit == <<"0","1","2","3","4","5","6","7","8","9">>[(n % 10) + 1]
  IN IF n < 10 THEN <<digit>> ELSE Decimal(n \div 10) \o <<digit>>

\* Array.prototype.flat, one level
RECURSIVE Flat(_)
Flat(ss) == IF ss = <<>> THEN <<>> ELSE Head(ss) \o Flat(Tail(ss))
\* Array.prototype.filter(Boolean)
RECURSIVE FilterTruthy(_)
FilterTruthy(s) ==
  IF s = <<>> THEN <<>>
  ELSE (IF Truthy(Head(s)) THEN <<Head(s)>> ELSE <<>>) \o FilterTruthy(Tail(s))
\* Array.prototype.slice(a, b) on 0-based indices
Slice(s, a, b) ==
  LET hi == IF b < Len(s) THEN b ELSE Len(s)
  IN IF a >= hi THEN <<>> ELSE SubSeq(s, a + 1, hi)
\* Math.ceil(n / b) for b >= 1
Ceil(n, b) == (n + b - 1) \div b

(* ------------------------------ Run Logger ----------------------------- *)
RunId == <<"run">>
\* this.finishedAt = null
NullTime == 0
\* this.startedAt: the clock reading at construction
StartTime == 1

\* the parameter defaults of log({...})
DefaultFields ==
  [country |-> Empty, url |-> Empty, status |-> Empty, cfCache |-> Empty,
   lsCache |-> Empty, cfRay |-> Empty, responseMs |-> Empty, error |-> 0,
   message |-> Empty]

\* typeof v === "number"
IsNumber(v) == Len(v) = 1

\* a variant that pushes every row with a null finish time
LoggerLogUnstamped(rs, fin, f) ==
  Append(rs,
    [runId |-> RunId, startedAt |-> StartTime, finishedAt |-> NullTime,
     country |-> f.country, url |-> f.url, status |-> f.status,
     cfCache |-> f.cfCache, lsCache |-> f.lsCache, cfRay |-> f.cfRay,
     responseMs |-> IF IsNumber(f.responseMs) THEN f.responseMs ELSE Empty,
     error |-> IF f.error # 0 THEN 1 ELSE 0,
     message |-> f.message])

\* log(fields): the collection with one row pushed, stamped with the current
\* value of finishedAt
LoggerLog(rs, fin, f) ==
  Append(rs,
    [runId |-> RunId, startedAt |-> StartTime, finishedAt |-> fin,
     country |-> f.country, url |-> f.url, status |-> f.status,
     cfCache |-> f.cfCache, lsCache |-> f.lsCache, cfRay |-> f.cfRay,
     responseMs |-> IF IsNumber(f.responseMs) THEN f.responseMs ELSE Empty,
     error |-> IF f.error # 0 THEN 1 ELSE 0,
     message |-> f.message])

\* setFinished(): rows.map((r) => ((r[2] = finishedAt), r))
StampRows(rs, t) == [k \in 1..Len(rs) |-> [rs[k] EXCEPT !.finishedAt = t]]

(* ----------------------------- the network ----------------------------- *)
\* what a page GET can meet: an HTTP reply (status and the three headers the
\* warmer reads; an absent header is Empty) or a failure below HTTP
WarmReply ==
  [kind |-> "http", status |-> 200,
   cfCache |-> <<"H","I","T">>, lsCache |-> <<"H","i","t">>,
   cfRay |-> <<"8","a","-","S","I","N">>]
BareReply ==
  [kind |-> "http", status |-> 200,
   cfCache |-> Empty, lsCache |-> Empty, cfRay |-> Empty]
NotFoundReply ==
  [kind |-> "http", status |-> 404,
   cfCache |-> <<"M","I","S","S">>, lsCache |-> <<"m","i","s","s">>,
   cfRay |-> <<"8","c","-","C","G","K">>]
HttpReplies ==
  { WarmReply, BareReply, NotFoundReply,
    [kind |-> "http", status |-> 200,
     cfCache |-> <<"H","I","T">>, lsCache |-> <<"h","i","t">>,
     cfRay |-> <<"8","a","-","S","I","N","-","x">>],
    [kind |-> "http", status |-> 204,
     cfCache |-> <<"M","I","S","S">>, lsCache |-> <<"m","i","s","s">>,
     cfRay |-> <<"8","b">>] }

ConnectionReset ==
  [kind |-> "fail", isAxios |-> TRUE, code |-> <<"ECONNRESET">>,
   message |-> <<"socket hang up">>]
NetFailures ==
  { ConnectionReset,
    [kind |-> "fail", isAxios |-> TRUE, code |-> <<"ECONNABORTED">>,
     message |-> <<"timeout of 15000ms exceeded">>],
    [kind |-> "fail", isAxios |-> TRUE, code |-> <<"ETIMEDOUT">>,
     message |-> <<"connect ETIMEDOUT">>],
    [kind |-> "fail", isAxios |-> FALSE, code |-> Empty, message |-> Empty] }

GetOutcomes == HttpReplies \cup NetFailures
\* one outcome for each path through the callback of a url: a response that
\* needs no purge, one that does, an error that is retried, one that is not
ControlOutcomes == {WarmReply, BareReply, ConnectionReset, NotFoundReply}

\* axios.get with the configuration of buildAxiosCfg, which sets no
\* validateStatus: a reply outside 2xx is rejected with an AxiosError
AxiosGet(o) ==
  IF o.kind = "http"
  THEN IF o.status >= 200 /\ o.status < 300
       THEN [ok |-> TRUE, res |-> o]
       ELSE [ok |-> FALSE,
             err |-> [isAxios |-> TRUE,
                      code |-> IF o.status >= 500 THEN <<"ERR_BAD_RESPONSE">>
                                                  ELSE <<"ERR_BAD_REQUEST">>,
                      message |-> <<"Request failed with status code ">>
                                    \o Decimal(o.status)]]
  ELSE [ok |-> FALSE,
        err |-> [isAxios |-> o.isAxios, code |-> o.code, message |-> o.message]]

\* a variant that retries every AxiosError
IsTransientAnyAxios(err) == err.isAxios
\* the retry test of retryableGet
TransientCodes == {<<"ECONNABORTED">>, <<"ECONNRESET">>, <<"ETIMEDOUT">>}
IsTransient(err) == err.isAxios /\ OrElse(err.code, Empty) \in TransientCodes

\* what warmUrls derives from the headers of a response
CfCacheOf(res) == OrElse(res.cfCache, NA)
LsCacheOf(res) == OrElse(res.lsCache, NA)
CfRayOf(res) == OrElse(res.cfRay, NA)
\* a variant that takes the segment before the hyphen
CfEdgeFirstSegment(cfRay) ==
  IF Includes(cfRay, "-") THEN Split(cfRay, "-")[1] ELSE NA
CfEdge(cfRay) == IF Includes(cfRay, "-") THEN Split(cfRay, "-")[2] ELSE NA
\* a variant that compares without lowering the case
NeedsPurgeCaseSensitive(lsCache) == lsCache # <<"h","i","t">>
\* String(lsCache).toLowerCase() !== "hit"
NeedsPurge(lsCache) == ToLowerCase(lsCache) # <<"h","i","t">>

\* a variant whose slices run one url into the next batch
BatchesOverlapping(us, b) ==
  [i \in 1..Ceil(Len(us), b) |-> Slice(us, (i - 1) * b, (i - 1) * b + b + 1)]
\* a variant with Math.floor for Math.ceil
BatchesFloor(us, b) ==
  [i \in 1..(Len(us) \div b) |-> Slice(us, (i - 1) * b, (i - 1) * b + b)]
\* the batches of warmUrls
Batches(us, b) == [i \in 1..Ceil(Len(us), b) |-> Slice(us, (i - 1) * b, (i - 1) * b + b)]

(* ------------------------------ sitemaps ------------------------------- *)
\* what a sitemap GET followed by parseStringPromise can give: an exception
\* (network, timeout, malformed XML), or a parsed document whose entry list
\* (sitemapindex.sitemap, urlset.url) is absent, one object, or an array of
\* two or more objects; loc is Empty where an entry has none
SitemapError == [kind |-> "error"]
NoList == [kind |-> "doc", has |-> FALSE, isArray |-> FALSE, items |-> <<>>]
OneEntry(e) == [kind |-> "doc", has |-> TRUE, isArray |-> FALSE, items |-> <<e>>]
ManyEntries(es) == [kind |-> "doc", has |-> TRUE, isArray |-> TRUE, items |-> es]

ChildSitemapUrls == {<<"s1">>, <<"s2">>}
\* the sitemap indexes: every list of at most MaxIndexEntries entries
IndexDocs ==
  LET entries == [loc : ChildSitemapUrls \cup {Empty}]
  IN {SitemapError, NoList}
     \cup {OneEntry(e) : e \in entries}
     \cup UNION {{ManyEntries(es) : es \in [1..n -> entries]} :
                   n \in 2..MaxIndexEntries}

PageA == <<"a">>
PageB == <<"b">>
\* the child sitemaps: no list, one page, one entry without loc, and a list
\* of two pages around an entry without loc
ChildDocs ==
  {SitemapError, NoList, OneEntry([loc |-> PageA]), OneEntry([loc |-> Empty]),
   ManyEntries(<<[loc |-> PageA], [loc |-> Empty], [loc |-> PageB]>>)}

\* (Array.isArray(list) ? list : [list]).map((e) => e.loc).filter(Boolean),
\* or [] when the list is absent or anything threw
LocsOf(o) ==
  IF o.kind = "error" THEN <<>>
  ELSE IF ~o.has THEN <<>>
  ELSE FilterTruthy([k \in 1..Len(o.items) |-> o.items[k].loc])
FetchIndexSitemaps(o) == LocsOf(o)
\* a variant without the Array.isArray test: a list of one entry, which the
\* parser hands over as an object, gives nothing
FetchUrlsFromSitemapArraysOnly(o) ==
  IF o.kind = "doc" /\ o.has /\ o.isArray THEN LocsOf(o) ELSE <<>>
FetchUrlsFromSitemap(o) == LocsOf(o)

(* ------------------------------- state --------------------------------- *)
VARIABLES
  sinkUrl,      \* APPS_SCRIPT_URL is set
  zoneId,       \* CLOUDFLARE_ZONE_ID is set
  apiToken,     \* CLOUDFLARE_API_TOKEN is set
  batchSize,    \* the batchSize parameter of warmUrls
  clock,        \* the last reading of the wall clock
  rows,         \* logger.rows
  finishedAt,   \* logger.finishedAt
  pc,           \* where the orchestrating function (or the harness) stands
  dpc,          \* per domain: where its pipeline stands
  sitemapList,  \* per domain: the child sitemaps being fetched
  childRes,     \* per domain: the results of the child fetches so far
  indexKind,    \* per domain: how the sitemap index came out
  urls,         \* per domain: the urls handed to warmUrls
  batches,      \* per domain: the batches of warmUrls
  bi,           \* per domain: the number of the batch being processed
  tasks,        \* per domain: the callbacks of the current batch
  track,        \* per domain and url position: what has happened to it so far
  nDelay,       \* per domain: inter-batch sleeps started
  calls,        \* the setFinished and flush calls made, in order
  posts,        \* the payloads flush has POSTed, in order
  childSeen     \* per domain: what the GET of each child sitemap met, by
                \* index; written by ChildRespondSeen only

vars == <<sinkUrl, zoneId, apiToken, batchSize, clock, rows, finishedAt, pc,
          dpc, sitemapList, childRes, indexKind, urls, batches, bi,
          tasks, track, nDelay, calls, posts, childSeen>>
envVars == <<sinkUrl, zoneId, apiToken, batchSize>>
loggerVars == <<rows, finishedAt, clock, calls, posts>>
domainVars == <<dpc, sitemapList, childRes, indexKind, urls, batches, bi,
                tasks, track, nDelay>>

Pending == [done |-> FALSE, urls |-> <<>>]

\* the state once the module is loaded, the logger is constructed and every
\* domain's callback has run up to its first await (the GET of the index)
InitUpTo(maxBatch) ==
  /\ sinkUrl \in BOOLEAN
  /\ zoneId \in BOOLEAN
  /\ apiToken \in BOOLEAN
  /\ batchSize \in 1..maxBatch
  /\ clock = StartTime
  /\ rows = <<>>
  /\ finishedAt = NullTime
  /\ pc = "run"
  /\ dpc = [d \in Domains |-> "index"]
  /\ sitemapList = [d \in Domains |-> <<>>]
  /\ childRes = [d \in Domains |-> <<>>]
  /\ indexKind = [d \in Domains |-> "pending"]
  /\ urls = [d \in Domains |-> <<>>]
  /\ batches = [d \in Domains |-> <<>>]
  /\ bi = [d \in Domains |-> 0]
  /\ tasks = [d \in Domains |-> <<>>]
  /\ track = [d \in Domains |-> <<>>]
  /\ nDelay = [d \in Domains |-> 0]
  /\ calls = <<>>
  /\ posts = <<>>
  /\ childSeen = [d \in Domains |-> <<>>]
Init == InitUpTo(MaxPageBatch)
InitBatches == InitUpTo(MaxBatchSize)

(* ------------------------------ warmUrls ------------------------------- *)
\* the process has not ended
Alive == pc \in {"run", "flushing"}

\* the position in urls of member k of batch n
GlobalIx(n, k) == (n - 1) * batchSize + k

\* one callback of batch.map, run up to its first await: t0 is read and
\* retryableGet has issued its first GET (i = 0, lastError = null).  gets,
\* settled and sleeps count the GETs issued, the GETs settled and the backoff
\* sleeps started by this call; lastSeen and lastSeenErr are how the latest
\* GET settled; raised is the error the call threw, if it did
NewTask(url, t) ==
  [url |-> url, st |-> "get", i |-> 0, lastError |-> <<>>, t0 |-> t,
   gets |-> 1, settled |-> 0, sleeps |-> 0, lastSeen |-> "none",
   lastSeenErr |-> <<>>, raised |-> <<>>]
\* the callback once retryableGet has returned or thrown: the locals of the
\* call (i, lastError, t0) are dead and its counts are dropped with them; what
\* stays is how the last GET settled and what the call threw
AfterGet(t, st, seen, err, raised) ==
  [url |-> t.url, st |-> st, i |-> 0, lastError |-> <<>>, t0 |-> 0,
   gets |-> 0, settled |-> 0, sleeps |-> 0, lastSeen |-> seen,
   lastSeenErr |-> err, raised |-> raised]
BatchTasks(batch, t) == [k \in 1..Len(batch) |-> NewTask(batch[k], t)]

NewTrack == [started |-> FALSE, done |-> FALSE, purges |-> 0, purgePosts |-> 0,
             logged |-> 0, rowAt |-> 0]
MarkStarted(tr, n, len) ==
  [g \in 1..Len(tr) |->
     IF g >= GlobalIx(n, 1) /\ g <= GlobalIx(n, len)
     THEN [tr[g] EXCEPT !.started = TRUE] ELSE tr[g]]

\* the row of a response
SuccessFields(url, res, dt) ==
  [country |-> CfEdge(CfRayOf(res)), url |-> url, status |-> <<res.status>>,
   cfCache |-> CfCacheOf(res), lsCache |-> LsCacheOf(res),
   cfRay |-> CfRayOf(res), responseMs |-> <<dt>>, error |-> 0,
   message |-> Empty]
\* the row of a failed fetch
FailureFields(d, url, err, dt) ==
  [DefaultFields EXCEPT !.country = CountryOf(d), !.url = url,
                        !.responseMs = <<dt>>, !.error = 1,
                        !.message = OrElse(err.message, <<"request failed">>)]
\* a variant that flags the summary of an empty url set as an error
SummaryFieldsFlagged(d, n) ==
  [DefaultFields EXCEPT !.country = CountryOf(d),
                        !.error = IF n = 0 THEN 1 ELSE 0,
                        !.message = <<"Found ">> \o Decimal(n)
                                      \o <<" URLs for ">> \o CountryOf(d)]
\* the summary row of a domain
SummaryFields(d, n) ==
  [DefaultFields EXCEPT !.country = CountryOf(d),
                        !.message = <<"Found ">> \o Decimal(n)
                                      \o <<" URLs for ">> \o CountryOf(d)]

\* purgeCloudflareCache goes as far as its POST
PurgeConfigured == zoneId /\ apiToken

\* the domain callback from the flattening of the child results to the first
\* await inside warmUrls: the summary row, the batches, the GETs of batch 1
Resolve(d, urlArrays) ==
  LET us == FilterTruthy(Flat(urlArrays))
      bs == Batches(us, batchSize)
  IN /\ urls' = [urls EXCEPT ![d] = us]
     /\ rows' = LoggerLog(rows, finishedAt, SummaryFields(d, Len(us)))
     /\ batches' = [batches EXCEPT ![d] = bs]
     /\ track' = [track EXCEPT ![d] =
                    MarkStarted([g \in 1..Len(us) |-> NewTrack], 1,
                                IF bs = <<>> THEN 0 ELSE Len(bs[1]))]
     /\ IF bs = <<>>
        THEN /\ dpc' = [dpc EXCEPT ![d] = "done"]
             /\ UNCHANGED <<bi, tasks>>
        ELSE /\ dpc' = [dpc EXCEPT ![d] = "batch"]
             /\ bi' = [bi EXCEPT ![d] = 1]
             /\ tasks' = [tasks EXCEPT ![d] = BatchTasks(bs[1], clock)]

\* the GET of the sitemap index settles
IndexRespond(d, o) ==
  /\ Alive
  /\ dpc[d] = "index"
  /\ LET list == FetchIndexSitemaps(o)
     IN /\ indexKind' = [indexKind EXCEPT ![d] =
                           IF o.kind = "error" THEN "error"
                           ELSE IF list = <<>> THEN "empty" ELSE "listed"]
        /\ IF list = <<>>
           THEN /\ Resolve(d, <<>>)
                /\ UNCHANGED <<sitemapList, childRes>>
           ELSE /\ dpc' = [dpc EXCEPT ![d] = "children"]
                /\ sitemapList' = [sitemapList EXCEPT ![d] = list]
                /\ childRes' = [childRes EXCEPT ![d] =
                                  [k \in 1..Len(list) |-> Pending]]
                /\ UNCHANGED <<rows, urls, batches, bi, tasks, track>>
  /\ UNCHANGED <<envVars, childSeen, clock, finishedAt, pc, nDelay, calls, posts>>

\* the GET of child sitemap k settles; the last one to settle resumes the
\* domain callback, whose locals sitemapList and urlArrays are dead from then
\* on; cap bounds the urls of the domain
ChildSettle(d, k, o, cap) ==
  /\ Alive
  /\ dpc[d] = "children"
  /\ k \in 1..Len(childRes[d])
  /\ ~childRes[d][k].done
  /\ LET res == [childRes[d] EXCEPT
                   ![k] = [done |-> TRUE, urls |-> FetchUrlsFromSitemap(o)]]
         arrays == [j \in 1..Len(res) |-> res[j].urls]
     IN /\ Len(Flat(arrays)) <= cap
        /\ IF \A j \in 1..Len(res) : res[j].done
           THEN /\ Resolve(d, arrays)
                /\ sitemapList' = [sitemapList EXCEPT ![d] = <<>>]
                /\ childRes' = [childRes EXCEPT ![d] = <<>>]
           ELSE /\ childRes' = [childRes EXCEPT ![d] = res]
                /\ UNCHANGED <<rows, urls, batches, bi, tasks, track, dpc,
                               sitemapList>>
  /\ UNCHANGED <<envVars, clock, finishedAt, pc, indexKind, nDelay, calls,
                 posts>>
ChildRespond(d, k, o, cap) ==
  /\ ChildSettle(d, k, o, cap)
  /\ UNCHANGED childSeen

\* no GET of this child has settled yet
NotSeen == [kind |-> "pending"]
\* the same step, with what the GET met put on record
ChildRespondSeen(d, k, o, cap) ==
  /\ ChildSettle(d, k, o, cap)
  /\ childSeen' = [childSeen EXCEPT ![d] =
                [j \in 1..Len(childRes[d]) |->
                   IF j = k THEN o
                   ELSE IF j <= Len(@) THEN @[j] ELSE NotSeen]]

\* what the purge POST can come to: a body with success, a body without,
\* a network error
PurgeOutcomes == {"success", "refused", "error"}

\* a page GET of member k of the current batch settles: a response is logged
\* and, unless the accelerator reports a hit, purged; a transient error starts
\* the backoff sleep; any other error leaves the loop and is logged
GetRespond(d, k, o) ==
  /\ Alive
  /\ dpc[d] = "batch"
  /\ k \in 1..Len(tasks[d])
  /\ tasks[d][k].st = "get"
  /\ LET t == tasks[d][k]
         g == GlobalIx(bi[d], k)
         r == AxiosGet(o)
         dt == clock - t.t0
     IN IF r.ok
        THEN LET purge == NeedsPurge(LsCacheOf(r.res))
                 post == purge /\ PurgeConfigured
             IN /\ rows' = LoggerLog(rows, finishedAt,
                                     SuccessFields(t.url, r.res, dt))
                /\ tasks' = [tasks EXCEPT ![d][k] =
                     AfterGet(t, IF post THEN "purge" ELSE "done", "success",
                              <<>>, <<>>)]
                /\ track' = [track EXCEPT ![d][g] =
                     [@ EXCEPT !.logged = @ + 1, !.rowAt = Len(rows) + 1,
                               !.purges = @ + (IF purge THEN 1 ELSE 0),
                               !.purgePosts = @ + (IF post THEN 1 ELSE 0),
                               !.done = ~post]]
        ELSE IF IsTransient(r.err)
        THEN /\ tasks' = [tasks EXCEPT ![d][k] =
                  [t EXCEPT !.st = "sleep", !.lastError = <<r.err>>,
                            !.settled = @ + 1, !.sleeps = @ + 1,
                            !.lastSeen = "failure",
                            !.lastSeenErr = <<r.err>>]]
             /\ UNCHANGED <<rows, track>>
        ELSE /\ rows' = LoggerLog(rows, finishedAt,
                                  FailureFields(d, t.url, r.err, dt))
             /\ tasks' = [tasks EXCEPT ![d][k] =
                  AfterGet(t, "done", "failure", <<r.err>>, <<r.err>>)]
             /\ track' = [track EXCEPT ![d][g] =
                  [@ EXCEPT !.logged = @ + 1, !.rowAt = Len(rows) + 1,
                            !.done = TRUE]]
  /\ UNCHANGED <<envVars, childSeen, clock, finishedAt, pc, dpc, sitemapList, childRes,
                 indexKind, urls, batches, bi, nDelay, calls, posts>>

\* a variant that swallows the error thrown when the attempts are exhausted
BackoffDoneSilent(d, k) ==
  /\ Alive
  /\ dpc[d] = "batch"
  /\ k \in 1..Len(tasks[d])
  /\ tasks[d][k].st = "sleep"
  /\ LET t == tasks[d][k]
         g == GlobalIx(bi[d], k)
     IN IF t.i + 1 < Retries
        THEN /\ tasks' = [tasks EXCEPT ![d][k] =
                  [t EXCEPT !.st = "get", !.i = @ + 1, !.gets = @ + 1]]
             /\ UNCHANGED <<rows, track>>
        ELSE /\ rows' = rows
             /\ tasks' = [tasks EXCEPT ![d][k] =
                  AfterGet(t, "done", "failure", t.lastSeenErr, t.lastError)]
             /\ track' = [track EXCEPT ![d][g] = [@ EXCEPT !.done = TRUE]]
  /\ UNCHANGED <<envVars, childSeen, clock, finishedAt, pc, dpc, sitemapList,
                 childRes, indexKind, urls, batches, bi, nDelay, calls, posts>>
\* the backoff sleep of member k ends: the loop counter advances and either
\* the next GET is issued or the loop is left and lastError is thrown and logged
BackoffDone(d, k) ==
  /\ Alive
  /\ dpc[d] = "batch"
  /\ k \in 1..Len(tasks[d])
  /\ tasks[d][k].st = "sleep"
  /\ LET t == tasks[d][k]
         g == GlobalIx(bi[d], k)
         dt == clock - t.t0
     IN IF t.i + 1 < Retries
        THEN /\ tasks' = [tasks EXCEPT ![d][k] =
                  [t EXCEPT !.st = "get", !.i = @ + 1, !.gets = @ + 1]]
             /\ UNCHANGED <<rows, track>>
        ELSE /\ rows' = LoggerLog(rows, finishedAt,
                                  FailureFields(d, t.url, t.lastError[1], dt))
             /\ tasks' = [tasks EXCEPT ![d][k] =
                  AfterGet(t, "done", "failure", t.lastSeenErr, t.lastError)]
             /\ track' = [track EXCEPT ![d][g] =
                  [@ EXCEPT !.logged = @ + 1, !.rowAt = Len(rows) + 1,
                            !.done = TRUE]]
  /\ UNCHANGED <<envVars, childSeen, clock, finishedAt, pc, dpc, sitemapList, childRes,
                 indexKind, urls, batches, bi, nDelay, calls, posts>>

\* a variant that logs a purge that did not succeed as a failure of the url
PurgeRespondLogsFailure(d, k, o) ==
  /\ Alive
  /\ dpc[d] = "batch"
  /\ k \in 1..Len(tasks[d])
  /\ tasks[d][k].st = "purge"
  /\ o \in PurgeOutcomes
  /\ tasks' = [tasks EXCEPT ![d][k].st = "done"]
  /\ track' = [track EXCEPT ![d][GlobalIx(bi[d], k)].done = TRUE]
  /\ rows' = IF o = "success" THEN rows
             ELSE LoggerLog(rows, finishedAt,
                    [DefaultFields EXCEPT !.country = CountryOf(d),
                                          !.url = tasks[d][k].url,
                                          !.error = 1,
                                          !.message = <<"purge failed">>])
  /\ UNCHANGED <<envVars, childSeen, clock, finishedAt, pc, dpc, sitemapList,
                 childRes, indexKind, urls, batches, bi, nDelay, calls, posts>>
\* the purge POST of member k settles; whatever came, the callback is over
PurgeRespond(d, k, o) ==
  /\ Alive
  /\ dpc[d] = "batch"
  /\ k \in 1..Len(tasks[d])
  /\ tasks[d][k].st = "purge"
  /\ o \in PurgeOutcomes
  /\ tasks' = [tasks EXCEPT ![d][k].st = "done"]
  /\ track' = [track EXCEPT ![d][GlobalIx(bi[d], k)].done = TRUE]
  /\ UNCHANGED <<envVars, childSeen, clock, rows, finishedAt, pc, dpc, sitemapList,
                 childRes, indexKind, urls, batches, bi, nDelay, calls, posts>>

\* a variant that waits for the first member only (Promise.race)
BatchCompleteOnFirst(d) ==
  /\ Alive
  /\ dpc[d] = "batch"
  /\ \E k \in 1..Len(tasks[d]) : tasks[d][k].st = "done"
  /\ dpc' = [dpc EXCEPT ![d] = "delay"]
  /\ nDelay' = [nDelay EXCEPT ![d] = @ + 1]
  /\ tasks' = [tasks EXCEPT ![d] = <<>>]
  /\ UNCHANGED <<envVars, childSeen, clock, rows, finishedAt, pc, sitemapList, childRes,
                 indexKind, urls, batches, bi, track, calls, posts>>

\* Promise.all of the batch resolves and sleep(delay) starts
BatchComplete(d) ==
  /\ Alive
  /\ dpc[d] = "batch"
  /\ \A k \in 1..Len(tasks[d]) : tasks[d][k].st = "done"
  /\ dpc' = [dpc EXCEPT ![d] = "delay"]
  /\ nDelay' = [nDelay EXCEPT ![d] = @ + 1]
  /\ tasks' = [tasks EXCEPT ![d] = <<>>]
  /\ UNCHANGED <<envVars, childSeen, clock, rows, finishedAt, pc, sitemapList, childRes,
                 indexKind, urls, batches, bi, track, calls, posts>>

\* the error flag of the row logged for url position g, 0 while it has none
ErrorAt(d, g) ==
  IF track[d][g].rowAt = 0 THEN 0 ELSE rows[track[d][g].rowAt].error

\* a variant that leaves the loop once a url of the batch has failed
DelayDoneStopOnError(d) ==
  /\ Alive
  /\ dpc[d] = "delay"
  /\ IF /\ bi[d] < Len(batches[d])
        /\ \A g \in 1..Len(track[d]) : track[d][g].started => ErrorAt(d, g) = 0
     THEN /\ bi' = [bi EXCEPT ![d] = @ + 1]
          /\ tasks' = [tasks EXCEPT ![d] =
                         BatchTasks(batches[d][bi[d] + 1], clock)]
          /\ track' = [track EXCEPT ![d] =
                         MarkStarted(@, bi[d] + 1, Len(batches[d][bi[d] + 1]))]
          /\ dpc' = [dpc EXCEPT ![d] = "batch"]
     ELSE /\ dpc' = [dpc EXCEPT ![d] = "done"]
          /\ UNCHANGED <<bi, tasks, track>>
  /\ UNCHANGED <<envVars, childSeen, clock, rows, finishedAt, pc, sitemapList, childRes,
                 indexKind, urls, batches, nDelay, calls, posts>>
\* sleep(delay) ends: the next batch starts, or warmUrls returns
DelayDone(d) ==
  /\ Alive
  /\ dpc[d] = "delay"
  /\ IF bi[d] < Len(batches[d])
     THEN /\ bi' = [bi EXCEPT ![d] = @ + 1]
          /\ tasks' = [tasks EXCEPT ![d] =
                         BatchTasks(batches[d][bi[d] + 1], clock)]
          /\ track' = [track EXCEPT ![d] =
                         MarkStarted(@, bi[d] + 1, Len(batches[d][bi[d] + 1]))]
          /\ dpc' = [dpc EXCEPT ![d] = "batch"]
     ELSE /\ dpc' = [dpc EXCEPT ![d] = "done"]
          /\ UNCHANGED <<bi, tasks, track>>
  /\ UNCHANGED <<envVars, childSeen, clock, rows, finishedAt, pc, sitemapList, childRes,
                 indexKind, urls, batches, nDelay, calls, posts>>

(* ----------------------------- orchestrator ---------------------------- *)
\* a variant of flush that tests only the sink URL
FlushSendsUnlessUnset(rs) == sinkUrl
\* flush() goes as far as its POST
FlushSends(rs) == sinkUrl /\ Len(rs) # 0
InFlight == {j \in 1..Len(posts) : posts[j].result = "inflight"}
Threw == \E d \in Domains : dpc[d] = "threw"
\* a variant that waits for the summary rows only, not for warmUrls
SettledOnSummary ==
  Threw \/ \A d \in Domains : dpc[d] \notin {"index", "children"}
\* Promise.all of the domain callbacks has settled
Settled == Threw \/ \A d \in Domains : dpc[d] = "done"
\* how the async function ends once the finally block is through
EndOf == IF Threw THEN "rejected" ELSE "done"

\* the finally block up to the await inside flush: setFinished, then flush
\* either returns at once or issues its POST
Cleanup(t) ==
  /\ t \in clock..MaxClock
  /\ LET rs == StampRows(rows, t)
     IN /\ finishedAt' = t
        /\ clock' = t
        /\ rows' = rs
        /\ calls' = calls \o <<"setFinished", "flush">>
        /\ IF FlushSends(rs)
           THEN /\ posts' = Append(posts, [rows |-> rs, result |-> "inflight"])
                /\ pc' = "flushing"
           ELSE /\ posts' = posts
                /\ pc' = EndOf
  /\ UNCHANGED <<envVars, childSeen, domainVars>>

\* a variant with the cleanup after the try block instead of in a finally:
\* a rejection of Promise.all skips it
FinallyAfterTry(t) ==
  /\ pc = "run"
  /\ Settled
  /\ IF Threw
     THEN /\ t = clock
          /\ pc' = "rejected"
          /\ UNCHANGED <<envVars, childSeen, domainVars, loggerVars>>
     ELSE Cleanup(t)

\* Promise.all has settled, either way: the finally block runs
Finally(t) ==
  /\ pc = "run"
  /\ Settled
  /\ Cleanup(t)

\* the POST of flush settles; a failure is caught and only warned about
FlushRespond(j, o) ==
  /\ pc \in {"flushing", "api"}
  /\ j \in InFlight
  /\ o \in {"ok", "failed"}
  /\ posts' = [posts EXCEPT ![j].result = o]
  /\ pc' = IF pc = "api" THEN "api" ELSE EndOf
  /\ UNCHANGED <<envVars, childSeen, domainVars, clock, rows, finishedAt, calls>>

Next ==
  \/ \E d \in Domains : \E o \in IndexDocs : IndexRespond(d, o)
  \/ \E d \in Domains : \E k \in 1..MaxIndexEntries :
       \E o \in ChildDocs : ChildRespond(d, k, o, MaxPages)
  \/ \E d \in Domains : \E k \in 1..MaxPageBatch :
       \E o \in GetOutcomes : GetRespond(d, k, o)
  \/ \E d \in Domains : \E k \in 1..MaxPageBatch : BackoffDone(d, k)
  \/ \E d \in Domains : \E k \in 1..MaxPageBatch :
       \E o \in PurgeOutcomes : PurgeRespond(d, k, o)
  \/ \E d \in Domains : BatchComplete(d)
  \/ \E d \in Domains : DelayDone(d)
  \/ \E t \in 1..MaxClock : Finally(t)
  \/ \E j \in 1..1 : \E o \in {"ok", "failed"} : FlushRespond(j, o)

Spec == Init /\ [][Next]_vars

NextBatches ==
  \/ \E d \in Domains : \E o \in IndexDocs : IndexRespond(d, o)
  \/ \E d \in Domains : \E k \in 1..MaxIndexEntries :
       \E o \in ChildDocs : ChildRespond(d, k, o, MaxUrls)
  \/ \E d \in Domains : \E k \in 1..MaxBatchSize :
       \E o \in ControlOutcomes : GetRespond(d, k, o)
  \/ \E d \in Domains : \E k \in 1..MaxBatchSize : BackoffDone(d, k)
  \/ \E d \in Domains : \E k \in 1..MaxBatchSize :
       \E o \in PurgeOutcomes : PurgeRespond(d, k, o)
  \/ \E d \in Domains : BatchComplete(d)
  \/ \E d \in Domains : DelayDone(d)
  \/ \E t \in 1..MaxClock : Finally(t)
  \/ \E j \in 1..1 : \E o \in {"ok", "failed"} : FlushRespond(j, o)

SpecBatches == InitBatches /\ [][NextBatches]_vars

(* ------------------------ the sitemaps on record ----------------------- *)
\* The same run with what each child sitemap GET met kept on record.  What
\* the page GETs meet has no part in the resolution of the sitemaps: here
\* they meet a cached response or a 404, so no retry and no purge POST occurs.
PageOutcomes == {WarmReply, NotFoundReply}
NextSitemaps ==
  \/ \E d \in Domains : \E o \in IndexDocs : IndexRespond(d, o)
  \/ \E d \in Domains : \E k \in 1..MaxIndexEntries :
       \E o \in ChildDocs : ChildRespondSeen(d, k, o, MaxPages)
  \/ \E d \in Domains : \E k \in 1..MaxPageBatch :
       \E o \in PageOutcomes : GetRespond(d, k, o)
  \/ \E d \in Domains : BatchComplete(d)
  \/ \E d \in Domains : DelayDone(d)
  \/ \E t \in 1..MaxClock : Finally(t)
  \/ \E j \in 1..1 : \E o \in {"ok", "failed"} : FlushRespond(j, o)

SpecSitemaps == Init /\ [][NextSitemaps]_vars

(* ------------------------------ scheduling ----------------------------- *)
\* What the event loop and the request timeouts guarantee.  A setTimeout
\* fires (the backoff sleep, the inter-batch sleep).  A request made with a
\* timeout settles: the sitemap GETs (15000), the page GETs (15000), the sink
\* POST (20000).  A promise whose inputs have all settled is resumed
\* (Promise.all of a batch, the finally block).  The purge POST is made with
\* headers only, and axios sets no timeout by default: nothing makes it
\* settle, so no fairness is stated for PurgeRespond.
TimerFires ==
  \/ \E d \in Domains : \E k \in 1..MaxPageBatch : BackoffDone(d, k)
  \/ \E d \in Domains : DelayDone(d)
TimedRequestSettles ==
  \/ \E d \in Domains : \E o \in IndexDocs : IndexRespond(d, o)
  \/ \E d \in Domains : \E k \in 1..MaxIndexEntries :
       \E o \in ChildDocs : ChildRespond(d, k, o, MaxPages)
  \/ \E d \in Domains : \E k \in 1..MaxPageBatch :
       \E o \in GetOutcomes : GetRespond(d, k, o)
  \/ \E j \in 1..1 : \E o \in {"ok", "failed"} : FlushRespond(j, o)
PromiseResumes ==
  \/ \E d \in Domains : BatchComplete(d)
  \/ \E t \in 1..MaxClock : Finally(t)

SpecLive ==
  /\ Init
  /\ [][Next]_vars
  /\ WF_vars(TimerFires)
  /\ WF_vars(TimedRequestSettles)
  /\ WF_vars(PromiseResumes)

(* -------------------- an exception in a domain callback ----------------- *)
\* Every await of the domain callback sits on a function that catches its own
\* errors, so the source shows no statement of it that throws.  The try/finally
\* of the orchestrator is written for the case that one does: here the callback
\* throws as it is resumed (after the index, or after an inter-batch sleep),
\* which rejects Promise.all and, after the finally block, the async function.
PipelineThrow(d) ==
  /\ pc = "run"
  /\ dpc[d] \in {"index", "delay"}
  /\ dpc' = [dpc EXCEPT ![d] = "threw"]
  /\ UNCHANGED <<envVars, childSeen, loggerVars, pc, sitemapList, childRes, indexKind,
                 urls, batches, bi, tasks, track, nDelay>>

\* the batches of SpecBatches over the urls of Spec, and the throw
NextThrow ==
  \/ \E d \in Domains : \E o \in IndexDocs : IndexRespond(d, o)
  \/ \E d \in Domains : \E k \in 1..MaxIndexEntries :
       \E o \in ChildDocs : ChildRespond(d, k, o, MaxPages)
  \/ \E d \in Domains : \E k \in 1..MaxBatchSize :
       \E o \in ControlOutcomes : GetRespond(d, k, o)
  \/ \E d \in Domains : \E k \in 1..MaxBatchSize : BackoffDone(d, k)
  \/ \E d \in Domains : \E k \in 1..MaxBatchSize :
       \E o \in PurgeOutcomes : PurgeRespond(d, k, o)
  \/ \E d \in Domains : BatchComplete(d)
  \/ \E d \in Domains : DelayDone(d)
  \/ \E t \in 1..MaxClock : Finally(t)
  \/ \E j \in 1..1 : \E o \in {"ok", "failed"} : FlushRespond(j, o)
  \/ \E d \in Domains : PipelineThrow(d)

SpecThrow == InitBatches /\ [][NextThrow]_vars

(* ------------------------- the Run Logger alone ------------------------ *)
\* The three methods of AppsScriptLogger called in any order by a client,
\* with the sink POSTs settling in between.
LogInputs ==
  {DefaultFields,
   SummaryFields("id", 0),
   SuccessFields(PageA, [status |-> 200, cfCache |-> Empty,
                         lsCache |-> <<"H","i","t">>, cfRay |-> Empty], 0),
   [DefaultFields EXCEPT !.url = PageB, !.error = 1, !.responseMs = <<7>>]}

InitLogger ==
  /\ sinkUrl \in BOOLEAN
  /\ zoneId = FALSE
  /\ apiToken = FALSE
  /\ batchSize = 1
  /\ clock = StartTime
  /\ rows = <<>>
  /\ finishedAt = NullTime
  /\ pc = "api"
  /\ dpc = [d \in Domains |-> "idle"]
  /\ sitemapList = [d \in Domains |-> <<>>]
  /\ childRes = [d \in Domains |-> <<>>]
  /\ indexKind = [d \in Domains |-> "pending"]
  /\ urls = [d \in Domains |-> <<>>]
  /\ batches = [d \in Domains |-> <<>>]
  /\ bi = [d \in Domains |-> 0]
  /\ tasks = [d \in Domains |-> <<>>]
  /\ track = [d \in Domains |-> <<>>]
  /\ nDelay = [d \in Domains |-> 0]
  /\ calls = <<>>
  /\ posts = <<>>
  /\ childSeen = [d \in Domains |-> <<>>]

\* logger.log(f)
ApiLog(f) ==
  /\ pc = "api"
  /\ Len(rows) < MaxRows
  /\ rows' = LoggerLog(rows, finishedAt, f)
  /\ UNCHANGED <<envVars, childSeen, domainVars, clock, finishedAt, pc, calls, posts>>

\* logger.setFinished()
ApiSetFinished(t) ==
  /\ pc = "api"
  /\ Len(calls) < MaxCalls
  /\ t \in clock..MaxClock
  /\ finishedAt' = t
  /\ clock' = t
  /\ rows' = StampRows(rows, t)
  /\ calls' = Append(calls, "setFinished")
  /\ UNCHANGED <<envVars, childSeen, domainVars, pc, posts>>

\* logger.flush(), up to its await
ApiFlush ==
  /\ pc = "api"
  /\ Len(calls) < MaxCalls
  /\ calls' = Append(calls, "flush")
  /\ posts' = IF FlushSends(rows)
              THEN Append(posts, [rows |-> rows, result |-> "inflight"])
              ELSE posts
  /\ UNCHANGED <<envVars, childSeen, domainVars, clock, rows, finishedAt, pc>>

NextLogger ==
  \/ \E f \in LogInputs : ApiLog(f)
  \/ \E t \in 1..MaxClock : ApiSetFinished(t)
  \/ ApiFlush
  \/ \E j \in 1..MaxCalls : \E o \in {"ok", "failed"} : FlushRespond(j, o)

SpecLogger == InitLogger /\ [][NextLogger]_vars

(* ============================== properties ============================= *)
FinalizeThenFlush == <<"setFinished", "flush">>
Ended == pc \in {"done", "rejected"}

\* C1: whatever the domain callbacks come to, an exception included, the
\* orchestrator calls setFinished exactly once and then flush exactly once,
\* in that order, and the run does not end before both calls are made.
C1_FinalizeAndFlushOnce ==
  /\ calls \in {<<>>, FinalizeThenFlush}
  /\ (pc = "run") = (calls = <<>>)
  /\ Ended => calls = FinalizeThenFlush
  /\ (calls = FinalizeThenFlush) =>
        /\ finishedAt # NullTime
        /\ \A k \in 1..Len(rows) : rows[k].finishedAt = finishedAt
  /\ Len(posts) <= 1

\* a run in which a domain callback threw after a page had failed, ended
\* after the two calls
C1_Witness ==
  /\ pc = "rejected"
  /\ Threw
  /\ calls = FinalizeThenFlush
  /\ Len(posts) = 1
  /\ \E k \in 1..Len(rows) : rows[k].error = 1

\* the batch a url position belongs to
BatchOf(g) == ((g - 1) \div batchSize) + 1

\* C2: no GET is issued for a url of a later batch before every url of every
\* earlier batch has completed its processing, whatever the order in which the
\* members of a batch settle.
C2_BatchBarrier ==
  \A d \in Domains :
    /\ \A g, h \in 1..Len(track[d]) :
         (track[d][h].started /\ BatchOf(g) < BatchOf(h)) => track[d][g].done
    /\ \A k \in 1..Len(tasks[d]) :
         /\ BatchOf(GlobalIx(bi[d], k)) = bi[d]
         /\ track[d][GlobalIx(bi[d], k)].started

\* the second batch has started after a first batch of two whose second
\* member was logged before its first
C2_Witness ==
  \E d \in Domains :
    /\ batchSize = 2
    /\ Len(urls[d]) = 3
    /\ track[d][3].started
    /\ track[d][2].rowAt # 0
    /\ track[d][2].rowAt < track[d][1].rowAt

\* the least n with n * b >= len
CeilOf(len, b) == CHOOSE n \in 0..len : n * b >= len /\ (n = 0 \/ (n - 1) * b < len)

\* C3: warmUrls cuts the urls into exactly ceil(N/B) consecutive batches, each
\* of at most B urls and all but the last of exactly B, whose concatenation is
\* the url sequence; no urls, no batches.
C3_BatchPartition ==
  \A d \in Domains :
    dpc[d] \in {"batch", "delay", "done"} =>
      LET N == Len(urls[d])
          bs == batches[d]
      IN /\ Len(bs) = CeilOf(N, batchSize)
         /\ \A i \in 1..Len(bs) : Len(bs[i]) >= 1 /\ Len(bs[i]) <= batchSize
         /\ \A i \in 1..(Len(bs) - 1) : Len(bs[i]) = batchSize
         /\ Flat(bs) = urls[d]
         /\ (N = 0) => (bs = <<>>)

\* three urls in batches of two: a full batch and a batch of one
C3_Witness ==
  \E d \in Domains :
    /\ dpc[d] = "done"
    /\ batchSize = 2
    /\ Len(urls[d]) = 3
    /\ Len(batches[d]) = 2
    /\ Len(batches[d][2]) = 1

\* C4 (as claimed): a warmUrls call over N >= 1 urls has made exactly
\* ceil(N/B) - 1 inter-batch waits when it returns.
C4_DelaysBetweenBatchesOnly ==
  \A d \in Domains :
    (dpc[d] = "done" /\ Len(urls[d]) >= 1) =>
       nDelay[d] = CeilOf(Len(urls[d]), batchSize) - 1

\* the error codes the retry policy names
NamedTransient(err) ==
  err.code \in {<<"ECONNABORTED">>, <<"ECONNRESET">>, <<"ETIMEDOUT">>}

\* the counts of a retryableGet call in progress
C5_Counts ==
  \A d \in Domains : \A k \in 1..Len(tasks[d]) :
    LET t == tasks[d][k]
    IN /\ t.st \in {"get", "sleep"} =>
            /\ t.gets >= 1 /\ t.gets <= Retries
            /\ t.gets = t.settled + (IF t.st = "get" THEN 1 ELSE 0)
            /\ t.sleeps = t.settled
            /\ t.raised = <<>>
            /\ t.settled >= 1 =>
                 (t.lastSeen = "failure" /\ NamedTransient(t.lastSeenErr[1]))
       /\ t.raised # <<>> => t.st = "done"
\* what one step does to the call of member k of the current batch
C5_Step ==
  \A d \in Domains : \A k \in 1..Len(tasks[d]) :
    (bi'[d] = bi[d] /\ k <= Len(tasks'[d]) /\ tasks'[d][k] # tasks[d][k]) =>
      LET t == tasks[d][k]
          u == tasks'[d][k]
      IN CASE t.st = "get" /\ u.lastSeen = "success" ->
                /\ u.st \in {"purge", "done"}
                /\ u.raised = <<>>
           [] t.st = "get" /\ u.lastSeen = "failure"
                           /\ ~NamedTransient(u.lastSeenErr[1]) ->
                /\ u.st = "done"
                /\ u.raised = u.lastSeenErr
           [] t.st = "get" /\ u.lastSeen = "failure"
                           /\ NamedTransient(u.lastSeenErr[1]) ->
                /\ u.st = "sleep"
                /\ u.gets = t.gets
           [] t.st = "sleep" /\ t.gets < Retries ->
                /\ u.st = "get"
                /\ u.gets = t.gets + 1
           [] t.st = "sleep" /\ t.gets >= Retries ->
                /\ t.gets = Retries
                /\ u.st = "done"
                /\ u.raised = t.lastSeenErr
           [] OTHER ->
                /\ t.st = "purge"
                /\ u.st = "done"
                /\ u.raised = t.raised

\* C5: a retryableGet call issues between 1 and Retries GETs.  After a
\* response it returns, and after an error outside the three named codes it
\* throws that error, in both cases with no further GET and, for the error,
\* with no backoff sleep.  After an error of a named code it sleeps and tries
\* again, up to the GET number Retries, after which it throws the last error.
C5_RetryPolicy == []C5_Counts /\ [][C5_Step]_vars

\* a call has thrown a connection reset, which only the third GET can end on
C5_Witness ==
  \E d \in Domains : \E k \in 1..Len(tasks[d]) :
    /\ tasks[d][k].st = "done"
    /\ tasks[d][k].raised # <<>>
    /\ tasks[d][k].raised[1].code = <<"ECONNRESET">>

\* "hit" in any letter case
IsHitAnyCase(s) ==
  /\ Len(s) = 3
  /\ s[1] \in {"h", "H"}
  /\ s[2] \in {"i", "I"}
  /\ s[3] \in {"t", "T"}

\* C6: the purge client is called exactly once for a url whose fetch succeeded
\* with an x-litespeed-cache other than "hit" in any letter case (absent
\* included), and not at all for a hit, a failed fetch or a url not yet
\* fetched; it sends at most one POST per call.
C6_PurgeOnlyWhenCold ==
  \A d \in Domains : \A g \in 1..Len(track[d]) :
    LET tr == track[d][g]
    IN /\ tr.purgePosts = (IF zoneId /\ apiToken THEN tr.purges ELSE 0)
       /\ IF tr.logged = 0
          THEN tr.purges = 0
          ELSE LET row == rows[tr.rowAt]
               IN tr.purges =
                    (IF row.error = 0 /\ ~IsHitAnyCase(row.lsCache) THEN 1 ELSE 0)

\* a "Hit" left alone and an absent header purged with one POST
C6_Witness ==
  \E d \in Domains : \E g, h \in 1..Len(track[d]) :
    /\ track[d][g].logged = 1
    /\ rows[track[d][g].rowAt].error = 0
    /\ rows[track[d][g].rowAt].lsCache = <<"H","i","t">>
    /\ track[d][g].purges = 0
    /\ track[d][h].logged = 1
    /\ rows[track[d][h].rowAt].error = 0
    /\ rows[track[d][h].rowAt].lsCache = NA
    /\ track[d][h].purges = 1
    /\ track[d][h].purgePosts = 1

\* the segment of s after its first hyphen, N/A if s has none
EdgeToken(s) ==
  LET hyphens == {k \in 1..Len(s) : s[k] = "-"}
      first == CHOOSE k \in hyphens : \A j \in hyphens : k <= j
      after == {k \in hyphens : k > first}
      stop == IF after = {} THEN Len(s) + 1
              ELSE CHOOSE k \in after : \A j \in after : k <= j
  IN IF hyphens = {} THEN NA ELSE SubSeq(s, first + 1, stop - 1)

\* C7: the row of a url carries, as country, the edge token of the cf-ray
\* header when the fetch succeeded (N/A without a hyphen or a header) and the
\* configured identity of the domain when it failed.
C7_CountryByOutcome ==
  \A d \in Domains : \A g \in 1..Len(track[d]) :
    track[d][g].logged >= 1 =>
      LET row == rows[track[d][g].rowAt]
      IN /\ row.url = urls[d][g]
         /\ row.error = 0 => row.country = EdgeToken(row.cfRay)
         /\ row.error = 1 => row.country = <<d>>

\* a row of edge SIN next to the row of a failed fetch
C7_Witness ==
  \E d \in Domains : \E g, f \in 1..Len(track[d]) :
    /\ track[d][g].logged = 1
    /\ rows[track[d][g].rowAt].error = 0
    /\ rows[track[d][g].rowAt].cfRay = <<"8","a","-","S","I","N">>
    /\ rows[track[d][g].rowAt].country = <<"S","I","N">>
    /\ track[d][f].logged = 1
    /\ rows[track[d][f].rowAt].error = 1
    /\ rows[track[d][f].rowAt].country = <<"id">>

Finalized == \E i \in 1..Len(calls) : calls[i] = "setFinished"
C8_Stamps ==
  /\ Finalized = (finishedAt # NullTime)
  /\ \A k \in 1..Len(rows) : rows[k].finishedAt = finishedAt
C8_OnlyFinalizeRewrites ==
  /\ Len(rows') >= Len(rows)
  /\ (\E k \in 1..Len(rows) : rows'[k].finishedAt # rows[k].finishedAt)
        => calls' = Append(calls, "setFinished")

\* C8: before setFinished every row carries the null finish time; after it
\* every row, appended before or after, carries the run's finishedAt, which is
\* not null; and only setFinished changes the finish time of a row already
\* appended.
C8_FinishStamp == []C8_Stamps /\ [][C8_OnlyFinalizeRewrites]_vars

\* a row was flushed after setFinished, and a second row appended since then
\* carries the same finish time
C8_Witness ==
  /\ Len(posts) >= 1
  /\ Len(posts[1].rows) = 1
  /\ posts[1].rows[1].finishedAt # NullTime
  /\ Len(rows) = 2
  /\ rows[2].finishedAt = rows[1].finishedAt
  /\ rows[1].finishedAt = finishedAt

C9_FlushStep ==
  (calls' = Append(calls, "flush")) =>
     /\ rows' = rows
     /\ pc' = pc
     /\ posts' = IF sinkUrl /\ rows # <<>>
                 THEN Append(posts, [rows |-> rows, result |-> "inflight"])
                 ELSE posts
C9_PostFailure ==
  (\E j \in 1..Len(posts) : posts[j].result = "inflight"
                            /\ posts'[j].result = "failed") =>
     /\ rows' = rows
     /\ pc' = pc
     /\ calls' = calls
     /\ Len(posts') = Len(posts)

\* C9: flush sends nothing when there are no rows or no sink URL; otherwise it
\* sends one POST with the whole row collection; when that POST fails flush
\* returns all the same, sends nothing again and leaves the rows as they were.
C9_FlushBestEffort == [][C9_FlushStep /\ C9_PostFailure]_vars

\* a flush of no rows sent nothing, a later flush sent the rows and its POST
\* failed
C9_Witness ==
  /\ sinkUrl
  /\ calls = <<"flush", "flush">>
  /\ Len(posts) = 1
  /\ posts[1].result = "failed"
  /\ rows # <<>>
  /\ posts[1].rows = rows

\* C10: when the sitemap index of a domain cannot be fetched or parsed, or
\* lists no child sitemap, the domain resolves to no urls without raising, its
\* summary row "Found 0 URLs" is appended with the error flag cleared, no page
\* is fetched or purged, and the run ends only through setFinished and flush.
C10_EmptySitemap ==
  \A d \in Domains :
    indexKind[d] \in {"error", "empty"} =>
      /\ dpc[d] = "done"
      /\ urls[d] = <<>>
      /\ batches[d] = <<>>
      /\ tasks[d] = <<>>
      /\ track[d] = <<>>
      /\ nDelay[d] = 0
      /\ \E k \in 1..Len(rows) :
           /\ rows[k].message = <<"Found ", "0", " URLs for ", d>>
           /\ rows[k].error = 0
           /\ rows[k].country = <<d>>
      /\ \A k \in 1..Len(rows) : rows[k].url = Empty
      /\ pc # "rejected"
      /\ pc = "done" => (calls = FinalizeThenFlush /\ InFlight = {})

\* the index could not be fetched and the run has ended with its one row sent
C10_Witness ==
  \E d \in Domains :
    /\ indexKind[d] = "error"
    /\ pc = "done"
    /\ Len(rows) = 1
    /\ Len(posts) = 1
    /\ posts[1].rows = rows

\* C11: a failed fetch stops nothing.  warmUrls never raises; while a batch is
\* processed every member of it has had its GET issued, whatever became of the
\* others; and when warmUrls has returned, every url of the set has had a GET
\* issued and its callback run to the end.
C11_NoEarlyTermination ==
  \A d \in Domains :
    /\ dpc[d] # "threw"
    /\ dpc[d] \in {"batch", "delay", "done"} => Len(track[d]) = Len(urls[d])
    /\ dpc[d] = "batch" =>
         \A k \in 1..Len(batches[d][bi[d]]) :
           track[d][GlobalIx(bi[d], k)].started
    /\ dpc[d] = "done" =>
         \A g \in 1..Len(urls[d]) : track[d][g].started /\ track[d][g].done

\* warmUrls has returned over three urls of which the first failed, in a
\* batch of two, and the other two were fetched and logged
C11_Witness ==
  \E d \in Domains :
    /\ dpc[d] = "done"
    /\ batchSize = 2
    /\ Len(urls[d]) = 3
    /\ ErrorAt(d, 1) = 1
    /\ track[d][2].started /\ track[d][2].logged = 1
    /\ track[d][3].started /\ track[d][3].logged = 1

\* the step ends the fetch of a page url with an error thrown by retryableGet
FetchFails(d, k) ==
  /\ k <= Len(tasks[d]) /\ k <= Len(tasks'[d])
  /\ bi'[d] = bi[d]
  /\ tasks[d][k].st \in {"get", "sleep"}
  /\ tasks'[d][k].st = "done"
  /\ tasks'[d][k].raised # <<>>
\* the rows that were there are still there, the finish stamp aside
C12_RowsKept ==
  /\ Len(rows') \in {Len(rows), Len(rows) + 1}
  /\ \A k \in 1..Len(rows) :
       rows'[k] = [rows[k] EXCEPT !.finishedAt = rows'[k].finishedAt]
\* a row appended carries the error flag exactly when the step is the failure
\* of a page fetch, and then it is the row of that url
C12_FlagOnlyForFetchFailure ==
  Len(rows') = Len(rows) + 1 =>
    LET new == rows'[Len(rows')]
    IN /\ new.error = 1 <=>
            \E d \in Domains : \E k \in 1..MaxBatchSize : FetchFails(d, k)
       /\ \A d \in Domains : \A k \in 1..MaxBatchSize :
            FetchFails(d, k) => new.url = tasks[d][k].url
       /\ \A d \in Domains :
            dpc[d] \in {"index", "children"} /\ dpc'[d] # dpc[d] =>
              new.error = 0 /\ new.url = Empty
\* the settling of a purge POST or of the sink POST leaves the rows alone, and
\* the row of the purged url is the success row it was
C12_SilentFailures ==
  /\ \A d \in Domains : \A k \in 1..Len(tasks[d]) :
       (/\ tasks[d][k].st = "purge"
        /\ k <= Len(tasks'[d])
        /\ tasks'[d][k].st = "done") =>
          /\ rows' = rows
          /\ track'[d][GlobalIx(bi[d], k)].rowAt = track[d][GlobalIx(bi[d], k)].rowAt
          /\ ErrorAt(d, GlobalIx(bi[d], k)) = 0
  /\ (Len(posts') = Len(posts) /\ posts' # posts) => rows' = rows
  /\ \A d \in Domains :
       (dpc[d] = "children" /\ dpc'[d] = "children") => rows' = rows

\* C12: a row has its error flag set exactly when it was appended for the
\* failed fetch of a page url.  The failure of a sitemap, of a purge (a body
\* without success or a network error) or of the sink appends no row, sets
\* no flag and leaves every row as it was: the row of a url whose purge
\* failed stays a success row.
C12_OnlyFetchFailuresFlagged ==
  [][C12_RowsKept /\ C12_FlagOnlyForFetchFailure /\ C12_SilentFailures]_vars

\* a run ended after a purge POST was made for a url logged as a success, the
\* fetch of another url failed, and the sink POST failed
C12_Witness ==
  /\ pc = "done"
  /\ Len(posts) = 1 /\ posts[1].result = "failed"
  /\ \E d \in Domains : \E g, f \in 1..Len(track[d]) :
       /\ track[d][g].purgePosts = 1
       /\ track[d][g].done
       /\ ErrorAt(d, g) = 0
       /\ track[d][f].logged = 1
       /\ ErrorAt(d, f) = 1

\* C13 (as claimed): if timers fire and every request made with a timeout
\* settles, the run reaches setFinished and flush and then ends.
C13_RunTerminates == <>(Ended /\ calls = FinalizeThenFlush)

\* rs is an initial part of ss, the finish stamps aside
IsPrefixOf(rs, ss) ==
  /\ Len(rs) <= Len(ss)
  /\ \A k \in 1..Len(rs) :
       ss[k] = [rs[k] EXCEPT !.finishedAt = ss[k].finishedAt]
\* before setFinished rows are only appended; setFinished stamps them and
\* does nothing else to them; after it they do not change at all
C14_Step ==
  /\ IsPrefixOf(rows, rows')
  /\ (calls = <<>> /\ calls' = <<>>) =>
        \A k \in 1..Len(rows) : rows'[k] = rows[k]
  /\ (calls = <<>> /\ calls' # <<>>) => rows' = StampRows(rows, finishedAt')
  /\ calls # <<>> => rows' = rows
\* every row logged for a url is in the collection, and the payload of the
\* one POST is the collection
C14_Payload ==
  /\ \A d \in Domains : \A g \in 1..Len(track[d]) :
       track[d][g].logged >= 1 =>
         /\ track[d][g].rowAt \in 1..Len(rows)
         /\ rows[track[d][g].rowAt].url = urls[d][g]
  /\ Len(posts) <= 1
  /\ Len(posts) = 1 => (calls # <<>> /\ posts[1].rows = rows)

\* C14: in an orchestrated run the row collection only grows until
\* setFinished, which stamps it, and is not touched afterwards: every row is
\* appended before setFinished, none is appended, removed or modified after
\* it, and the payload of the single flush holds every row logged in the run.
C14_AppendOnlyThenFrozen == []C14_Payload /\ [][C14_Step]_vars

\* the run has ended with a summary row, a success row and a failure row in
\* the payload sent
C14_Witness ==
  /\ pc = "done"
  /\ Len(posts) = 1
  /\ posts[1].rows = rows
  /\ \E i, j, k \in 1..Len(rows) :
       /\ rows[i].url = Empty
       /\ rows[j].url # Empty /\ rows[j].error = 0
       /\ rows[k].url # Empty /\ rows[k].error = 1

\* C15 (as claimed): the backoff of retryableGet is waited between two
\* attempts only.  While a GET is outstanding the call has started one wait
\* fewer than it has issued GETs, and a wait in progress is followed by
\* another GET: none is started after the GET number Retries has failed.
C15_BackoffBetweenAttemptsOnly ==
  \A d \in Domains : \A k \in 1..Len(tasks[d]) :
    LET t == tasks[d][k]
    IN /\ t.st = "get" => t.sleeps = t.gets - 1
       /\ t.st = "sleep" => (t.sleeps = t.gets /\ t.gets < Retries)

\* C16 (as claimed): the purge does not hold up the warming flow.  Once every
\* member of the current batch has been fetched and logged, the batch can
\* complete and its inter-batch wait start, whether or not a purge POST of a
\* member is still outstanding.
C16_PurgeNonBlocking ==
  \A d \in Domains :
    (/\ Alive
     /\ dpc[d] = "batch"
     /\ \A k \in 1..Len(tasks[d]) : tasks[d][k].st \in {"purge", "done"})
      => ENABLED BatchComplete(d)

\* the error codes axios gives a response whose status fails validateStatus
StatusErrorCodes == {<<"ERR_BAD_REQUEST">>, <<"ERR_BAD_RESPONSE">>}

\* C17 (as claimed): a GET answered with a status outside 2xx is not a fetch
\* error.  No GET settles as a failure on account of the status of its
\* response, and no failure row is logged for a response.
C17_StatusIsNotAnError ==
  /\ \A d \in Domains : \A k \in 1..Len(tasks[d]) :
       tasks[d][k].lastSeen = "failure" =>
         tasks[d][k].lastSeenErr[1].code \notin StatusErrorCodes
  /\ \A k \in 1..Len(rows) :
       rows[k].error = 1 =>
         rows[k].message[1] # "Request failed with status code "

\* the page urls a child sitemap contributes: none if its fetch or parse
\* failed or it lists nothing, else the locations it lists, in order, those
\* without text left out
HasLoc(e) == e.loc # Empty
PagesOf(o) ==
  IF o.kind # "doc" THEN <<>>
  ELSE LET listed == SelectSeq(o.items, HasLoc)
       IN [k \in 1..Len(listed) |-> listed[k].loc]
RECURSIVE PagesInOrder(_)
PagesInOrder(os) ==
  IF os = <<>> THEN <<>> ELSE PagesOf(Head(os)) \o PagesInOrder(Tail(os))

\* C18: the failure of a child sitemap is its own.  While the children are
\* fetched, what each settled child gave is the pages it lists (none if it
\* failed) whatever the others came to; once they have all settled, the urls
\* of the domain are the pages of the children in index order, duplicates
\* kept; the resolution raises nothing.
C18_ChildFailuresIsolated ==
  \A d \in Domains :
    /\ dpc[d] # "threw"
    /\ dpc[d] = "children" =>
         \A j \in 1..Len(childRes[d]) :
           childRes[d][j].done =>
             /\ j <= Len(childSeen[d])
             /\ childSeen[d][j] # NotSeen
             /\ childRes[d][j].urls = PagesOf(childSeen[d][j])
    /\ (indexKind[d] = "listed" /\ dpc[d] \in {"batch", "delay", "done"}) =>
         /\ \A j \in 1..Len(childSeen[d]) : childSeen[d][j] # NotSeen
         /\ urls[d] = PagesInOrder(childSeen[d])

\* of two children the first failed and the second listed two pages, and
\* the two pages are the urls of the domain
C18_Witness ==
  \E d \in Domains :
    /\ dpc[d] = "done"
    /\ Len(childSeen[d]) = 2
    /\ childSeen[d][1] = SitemapError
    /\ childSeen[d][2].kind = "doc"
    /\ urls[d] = <<PageA, PageB>>

\* the urls handed to warmUrls, over a set of domains
RECURSIVE UrlCount(_)
UrlCount(ds) ==
  IF ds = {} THEN 0
  ELSE LET d == CHOOSE x \in ds : TRUE
       IN Len(urls[d]) + UrlCount(ds \ {d})
\* the positions of the summary rows of domain d
SummaryRowsOf(d) ==
  {k \in 1..Len(rows) : rows[k].url = Empty /\ rows[k].country = CountryOf(d)}

\* C19: one row for each url occurrence.  No position of the url sequence
\* ever has more than one row, positions do not share a row, and the row of a
\* position is a row of its url; when warmUrls has returned every position
\* has its row.  Each domain's one summary row comes before all its url rows,
\* and at flush the collection holds one summary row for each domain and one
\* row for each url occurrence, no more.
C19_OneRowPerUrl ==
  /\ \A d \in Domains :
       /\ \A g \in 1..Len(track[d]) :
            /\ track[d][g].logged \in {0, 1}
            /\ (track[d][g].logged = 1) = (track[d][g].rowAt # 0)
            /\ track[d][g].done => track[d][g].logged = 1
            /\ track[d][g].logged = 1 =>
                 /\ rows[track[d][g].rowAt].url = urls[d][g]
                 /\ \A k \in SummaryRowsOf(d) : k < track[d][g].rowAt
                 /\ \A h \in 1..Len(track[d]) :
                      track[d][h].rowAt = track[d][g].rowAt => h = g
       /\ dpc[d] = "done" =>
            \A g \in 1..Len(urls[d]) : track[d][g].logged = 1
       /\ dpc[d] \in {"batch", "delay", "done"} =>
            Cardinality(SummaryRowsOf(d)) = 1
  /\ calls # <<>> => Len(rows) = Cardinality(Domains) + UrlCount(Domains)

\* flush has been called on four rows: the summary and the rows of the urls
\* a, a, b, the two a fetched together and logged second before first
C19_Witness ==
  \E d \in Domains :
    /\ calls = FinalizeThenFlush
    /\ batchSize = 2
    /\ urls[d] = <<PageA, PageA, PageB>>
    /\ Len(rows) = 4
    /\ track[d][2].rowAt < track[d][1].rowAt
    /\ ErrorAt(d, 1) # ErrorAt(d, 2)

\* the url positions of d whose callback has started and is not over: a GET,
\* a backoff sleep or a purge POST is outstanding
InFlightUrls(d) ==
  {g \in 1..Len(track[d]) : track[d][g].started /\ ~track[d][g].done}

\* C20: at any time the urls of a domain being processed are at most
\* batchSize, all of the batch in progress, and they are the members of
\* that batch whose callback is not over.
C20_InFlightBound ==
  \A d \in Domains :
    /\ Cardinality(InFlightUrls(d)) <= batchSize
    /\ \A g \in InFlightUrls(d) :
         /\ dpc[d] = "batch"
         /\ BatchOf(g) = bi[d]
         /\ tasks[d][g - GlobalIx(bi[d], 1) + 1].st \in {"get", "sleep", "purge"}
    /\ \A k \in 1..Len(tasks[d]) :
         tasks[d][k].st \in {"get", "sleep", "purge"} =>
           GlobalIx(bi[d], k) \in InFlightUrls(d)

\* a full batch of two in flight, one url in its purge and one in a backoff
C20_Witness ==
  \E d \in Domains :
    /\ batchSize = 2
    /\ Cardinality(InFlightUrls(d)) = 2
    /\ tasks[d][1].st = "purge"
    /\ tasks[d][2].st = "sleep"

====
